---- MODULE Spec2Model ----
(***************************************************************************)
(* Model of target_jsonl.py: persist_messages (the message loop, the       *)
(* buffered object-storage put and the local append), and main/emit_state. *)
(* Text is modelled as strings of characters, so that json.dumps, str() of *)
(* a list and path joining are computed as the code computes them.         *)
(***************************************************************************)
EXTENDS Integers, Sequences, FiniteSets, TLC

VARIABLES
    config,            \* the keyword arguments main passes to persist_messages
    pc,                \* "Dispatching" | "Returned" | "Done" | "Failed"
    consumed,          \* the messages read from the input so far, in order
    state,             \* the current checkpoint: None or Some(v)
    schemas,           \* dict stream -> schema document
    key_properties,    \* dict stream -> key properties
    validators,        \* dict stream -> validator
    s3_data_to_write,  \* list of serialized records
    s3_file,           \* the tracked filename
    dirs,              \* local directories created
    files,             \* local files: path -> contents
    puts,              \* the put_object requests issued, in order
    objects,           \* object storage: <<bucket, key>> -> body
    error,             \* the exception that ended the run, "" if none
    returned,          \* <<>> until persist_messages returns, then <<state>>
    stdout             \* the text written to standard output

vars == <<config, pc, consumed, state, schemas, key_properties, validators,
          s3_data_to_write, s3_file, dirs, files, puts, objects, error,
          returned, stdout>>

-----------------------------------------------------------------------------
(* Bounds and the input alphabet.                                          *)

MaxMsgs == 4

Streams == {"users", "orders"}

None == <<>>
Some(v) == <<v>>

\* A JSON object with one member; kind says whether the member is a number
\* or a string, text is the member's value as written.
JsonObj(key, kind, text) == [key |-> key, kind |-> kind, text |-> text]

Records == {JsonObj("id", "int", "1"), JsonObj("id", "str", "a'")}

StateValues == {JsonObj("bookmark", "int", "1"), JsonObj("bookmark", "int", "2")}

\* Schema documents: {"type": "object", "properties": {"id": {"type": t}}};
\* multipleOf is the numeric node's declared precision, "" when undeclared.
SchemaDoc(t, mult) == [idType |-> t, multipleOf |-> mult]

SchemaDocs == {SchemaDoc("number", ""), SchemaDoc("string", "")}

KeyProperties == <<"id">>

SchemaMsg(s, d) == [type |-> "SCHEMA", stream |-> s, schema |-> d]
RecordMsg(s, r) == [type |-> "RECORD", stream |-> s, record |-> r]
StateMsg(v) == [type |-> "STATE", value |-> v]
ActivateVersionMsg == [type |-> "ACTIVATE_VERSION"]

Messages ==
    {SchemaMsg(s, d) : s \in Streams, d \in SchemaDocs}
    \cup {RecordMsg(s, r) : s \in Streams, r \in Records}
    \cup {StateMsg(v) : v \in StateValues}
    \cup {ActivateVersionMsg}

\* Every value main can pass for each keyword argument
ConfigValues ==
    [destination_path : {"", "out"},
     custom_name : {"", "all"},
     do_timestamp_file : BOOLEAN,
     write_to_s3 : BOOLEAN,
     s3_bucket : {"", "bkt"},
     s3_prefix : {"", "pre/"}]

\* The configurations explored: under write_to_s3 every combination of empty
\* and set bucket and prefix, under local append both directories; a custom
\* name comes without the timestamp and the stream name with it.
Configs ==
    {c \in ConfigValues :
        /\ c.do_timestamp_file = (c.custom_name = "")
        /\ c.write_to_s3 =>
              /\ c.destination_path = ""
              /\ c.custom_name # "" => (c.s3_bucket # "" /\ c.s3_prefix # "")
        /\ ~c.write_to_s3 =>
              /\ (c.destination_path = "") = (c.custom_name = "")
              /\ (c.s3_bucket = "") = (c.s3_prefix = "")}

\* datetime.now().strftime('%Y%m%dT%H%M%S') at the start of the run
Now == "20240101T000000"

-----------------------------------------------------------------------------
(* Text functions, computed character by character.                        *)

Char(s, i) == SubSeq(s, i, i)

RECURSIVE Contains(_, _)
Contains(s, c) ==
    IF Len(s) = 0 THEN FALSE
    ELSE IF Head(s) = c THEN TRUE ELSE Contains(Tail(s), c)

\* json.dumps of a str: the characters between the double quotes
RECURSIVE JsonEscape(_)
JsonEscape(s) ==
    IF Len(s) = 0 THEN ""
    ELSE LET c == Head(s) IN
         (IF c = "\"" THEN "\\\""
          ELSE IF c = "\\" THEN "\\\\"
          ELSE IF c = "\n" THEN "\\n"
          ELSE c) \o JsonEscape(Tail(s))

\* json.dumps(o) for a one-member object: separators are ", " and ": "
Dumps(o) ==
    "{\"" \o JsonEscape(o.key) \o "\": "
    \o (IF o.kind = "int" THEN o.text ELSE "\"" \o JsonEscape(o.text) \o "\"")
    \o "}"

\* the line appended for a record: json.dumps(o['record']) + '\n'
Line(r) == Dumps(r) \o "\n"

\* repr() of a str: the quote is ' unless the text has a ' and no "
ReprQuote(s) == IF Contains(s, "'") /\ ~Contains(s, "\"") THEN "\"" ELSE "'"

RECURSIVE ReprEscape(_, _)
ReprEscape(s, q) ==
    IF Len(s) = 0 THEN ""
    ELSE LET c == Head(s) IN
         (IF c = "\\" THEN "\\\\"
          ELSE IF c = "\n" THEN "\\n"
          ELSE IF c = q THEN "\\" \o q
          ELSE c) \o ReprEscape(Tail(s), q)

Repr(s) == ReprQuote(s) \o ReprEscape(s, ReprQuote(s)) \o ReprQuote(s)

\* ', '.join(repr(x) for x in l)
RECURSIVE JoinRepr(_)
JoinRepr(l) ==
    IF Len(l) = 0 THEN ""
    ELSE IF Len(l) = 1 THEN Repr(l[1])
    ELSE Repr(l[1]) \o ", " \o JoinRepr(Tail(l))

\* str(l) for a list of str
StrOfList(l) == "[" \o JoinRepr(l) \o "]"

\* s[1:-1]
Slice1(s) == IF Len(s) < 2 THEN "" ELSE SubSeq(s, 2, Len(s) - 1)

\* Body=str(s3_data_to_write)[1:-1]
PutBody(l) == Slice1(StrOfList(l))

\* ''.join(l)
RECURSIVE Concat(_)
Concat(l) == IF Len(l) = 0 THEN "" ELSE l[1] \o Concat(Tail(l))

\* '-' + datetime.now().strftime(...) if do_timestamp_file else ''
timestamp_file_part(cfg) == IF cfg.do_timestamp_file THEN "-" \o Now ELSE ""

\* (custom_name or o['stream']) + timestamp_file_part + '.jsonl'
Filename(cfg, stream) ==
    (IF cfg.custom_name # "" THEN cfg.custom_name ELSE stream)
    \o timestamp_file_part(cfg) \o ".jsonl"

\* os.path.join(a, b)
PathJoin(a, b) ==
    IF Len(b) > 0 /\ Head(b) = "/" THEN b
    ELSE IF Len(a) = 0 \/ Char(a, Len(a)) = "/" THEN a \o b
    ELSE a \o "/" \o b

HomeDir == "/home/user"

RECURSIVE AfterUser(_)
AfterUser(p) ==
    IF Len(p) = 0 \/ Head(p) = "/" THEN p ELSE AfterUser(Tail(p))

\* os.path.expanduser(p) for the current user
ExpandUser(p) ==
    IF Len(p) = 0 \/ Head(p) # "~" THEN p
    ELSE IF Len(p) = 1 \/ Char(p, 2) = "/" THEN HomeDir \o AfterUser(p)
    ELSE p

\* the local file a record of stream goes to
LocalPath(cfg, stream) ==
    ExpandUser(PathJoin(cfg.destination_path, Filename(cfg, stream)))

\* f'{s3_prefix}{s3_file}'
PutKey(cfg, file) == cfg.s3_prefix \o file

-----------------------------------------------------------------------------
(* Schemas and validation.                                                 *)

CanonicalPrecision == "1e-38"

\* adjust_decimal_precision_for_schema(schema): rewrites the schema in place;
\* every numeric node gets the canonical precision
adjust_decimal_precision_for_schema(d) ==
    IF d.idType = "number" THEN [d EXCEPT !.multipleOf = CanonicalPrecision]
    ELSE d

\* Draft4Validator(schema): keeps the schema it validates against
Draft4Validator(d) == [schema |-> d]

\* validator.validate(record) returns normally (no ValidationError)
Validates(validator, r) ==
    \/ validator.schema.idType = "number" /\ r.kind = "int"
    \/ validator.schema.idType = "string" /\ r.kind = "str"

\* d with d[k] = v
DictSet(d, k, v) == (k :> v) @@ d

EmptyDict == <<>>

-----------------------------------------------------------------------------
(* The state machine.                                                      *)

Init ==
    /\ config \in Configs
    /\ pc = "Dispatching"
    /\ consumed = <<>>
    /\ state = None
    /\ schemas = EmptyDict
    /\ key_properties = EmptyDict
    /\ validators = EmptyDict
    /\ s3_data_to_write = <<>>
    /\ s3_file = ""
    /\ dirs = {}
    /\ files = EmptyDict
    /\ puts = <<>>
    /\ objects = EmptyDict
    /\ error = ""
    /\ returned = <<>>
    /\ stdout = <<>>

\* the for loop takes the next message from the input
Reads(m) ==
    /\ pc = "Dispatching"
    /\ Len(consumed) < MaxMsgs
    /\ consumed' = Append(consumed, m)

\* an exception leaves persist_messages and main
Raise(e) ==
    /\ pc' = "Failed"
    /\ error' = e

\* a line singer.parse_message cannot decode
Undecodable == [type |-> "", raw |-> "not json"]

\* singer.parse_message raises on a line that is not JSON
DecodeError ==
    /\ Reads(Undecodable)
    /\ Raise("JSONDecodeError")
    /\ UNCHANGED <<config, state, schemas, key_properties, validators,
                   s3_data_to_write, s3_file, dirs, files, puts, objects,
                   returned, stdout>>

RecordErrorNoStreamCheck(m, fs_ok) ==
    IF m.stream \in DOMAIN schemas
       /\ ~Validates(validators[m.stream], m.record)
    THEN "ValidationError"
    ELSE IF config.write_to_s3
    THEN IF config.s3_bucket = "" \/ config.s3_prefix = ""
         THEN "ConfigurationError" ELSE ""
    ELSE IF ~fs_ok THEN "OSError" ELSE ""

RecordErrorNoValidation(m, fs_ok) ==
    IF m.stream \notin DOMAIN schemas THEN "UnknownStream"
    ELSE IF config.write_to_s3
    THEN IF config.s3_bucket = "" \/ config.s3_prefix = ""
         THEN "ConfigurationError" ELSE ""
    ELSE IF ~fs_ok THEN "OSError" ELSE ""

RecordErrorConfigFirst(m, fs_ok) ==
    IF config.write_to_s3
       /\ (config.s3_bucket = "" \/ config.s3_prefix = "")
    THEN "ConfigurationError"
    ELSE IF m.stream \notin DOMAIN schemas THEN "UnknownStream"
    ELSE IF ~Validates(validators[m.stream], m.record) THEN "ValidationError"
    ELSE IF ~config.write_to_s3 /\ ~fs_ok THEN "OSError" ELSE ""

\* The exception a RECORD message raises, "" if none: the checks in the
\* order the code makes them. fs_ok: mkdir, open and write succeed.
RecordError(m, fs_ok) ==
    IF m.stream \notin DOMAIN schemas THEN "UnknownStream"
    ELSE IF ~Validates(validators[m.stream], m.record) THEN "ValidationError"
    ELSE IF config.write_to_s3
    THEN IF config.s3_bucket = "" \/ config.s3_prefix = ""
         THEN "ConfigurationError" ELSE ""
    ELSE IF ~fs_ok THEN "OSError" ELSE ""

CheckpointKept(st) == st

CheckpointCleared(st) == None

\* the checkpoint after a record is buffered or appended: state = None is
\* in the local branch only
CheckpointAfterRecord(st) == IF config.write_to_s3 THEN st ELSE None

CheckpointFirstWins(st, v) == IF st = None THEN Some(v) ELSE st

\* state = o['value']
CheckpointAfterState(st, v) == Some(v)

FileOverwrite(old, line) == line

\* open(filename, 'a') and write: the line goes after the file's contents
FileAppend(old, line) == old \o line

TrackFirst(cur, filename) == IF cur = "" THEN filename ELSE cur

\* s3_file = filename: the tracked filename is the one of this record
TrackedFile(cur, filename) == filename

BufferKeyedByFile(buf, cur, filename, line) ==
    IF cur # "" /\ cur # filename THEN <<line>> ELSE Append(buf, line)

\* s3_data_to_write.append(...): one list for the run, whatever the tracked
\* filename cur and the filename of this record are
BufferAfterAppend(buf, cur, filename, line) == Append(buf, line)

PutsWriteThrough(p, filename, line) ==
    Append(p, [Body |-> line, Bucket |-> config.s3_bucket,
               Key |-> PutKey(config, filename)])

\* the per-record write to s3://bucket/prefix+filename is commented out:
\* buffering a record issues no put
PutsOnAppend(p, filename, line) == p

\* message_type == 'RECORD'
DispatchRecord ==
    \E m \in Messages, fs_ok \in BOOLEAN :
        /\ m.type = "RECORD"
        /\ Reads(m)
        /\ UNCHANGED <<config, schemas, key_properties, validators,
                       objects, returned, stdout>>
        /\ IF RecordError(m, fs_ok) # ""
           THEN /\ Raise(RecordError(m, fs_ok))
                /\ UNCHANGED <<state, s3_data_to_write, s3_file, dirs, files,
                               puts>>
           ELSE IF config.write_to_s3
           THEN LET filename == Filename(config, m.stream)
                IN  /\ s3_data_to_write' =
                           BufferAfterAppend(s3_data_to_write, s3_file,
                                             filename, Line(m.record))
                    /\ s3_file' = TrackedFile(s3_file, filename)
                    /\ puts' = PutsOnAppend(puts, filename, Line(m.record))
                    /\ state' = CheckpointAfterRecord(state)
                    /\ UNCHANGED <<pc, error, dirs, files>>
           ELSE LET filename == LocalPath(config, m.stream)
                    old == IF filename \in DOMAIN files
                           THEN files[filename] ELSE ""
                IN  /\ dirs' = IF config.destination_path # ""
                               THEN dirs \cup {config.destination_path}
                               ELSE dirs
                    /\ files' = DictSet(files, filename,
                                        FileAppend(old, Line(m.record)))
                    /\ state' = CheckpointAfterRecord(state)
                    /\ UNCHANGED <<pc, error, s3_data_to_write, s3_file,
                                   puts>>

\* message_type == 'STATE'
DispatchState ==
    \E m \in Messages :
        /\ m.type = "STATE"
        /\ Reads(m)
        /\ state' = CheckpointAfterState(state, m.value)
        /\ UNCHANGED <<config, pc, schemas, key_properties, validators,
                       s3_data_to_write, s3_file, dirs, files, puts, objects,
                       error, returned, stdout>>

ValidatorsKeepFirst(vals, stream, schema) ==
    IF stream \in DOMAIN vals THEN vals
    ELSE DictSet(vals, stream, Draft4Validator(schema))

\* validators[stream] = Draft4Validator(o['schema']), on every SCHEMA message
ValidatorsAfterSchema(vals, stream, schema) ==
    DictSet(vals, stream, Draft4Validator(schema))

\* message_type == 'SCHEMA'
DispatchSchema ==
    \E m \in Messages :
        /\ m.type = "SCHEMA"
        /\ Reads(m)
        /\ LET schema == adjust_decimal_precision_for_schema(m.schema)
           IN  /\ schemas' = DictSet(schemas, m.stream, schema)
               /\ validators' =
                      ValidatorsAfterSchema(validators, m.stream, schema)
        /\ key_properties' = DictSet(key_properties, m.stream, KeyProperties)
        /\ UNCHANGED <<config, pc, state, s3_data_to_write, s3_file, dirs,
                       files, puts, objects, error, returned, stdout>>

DispatchOtherFatal ==
    \E m \in Messages :
        /\ m.type \notin {"RECORD", "STATE", "SCHEMA"}
        /\ Reads(m)
        /\ Raise("UnknownMessageType")
        /\ UNCHANGED <<config, state, schemas, key_properties,
                       validators, s3_data_to_write, s3_file, dirs, files,
                       puts, objects, returned, stdout>>

\* any other message type: logger.warning
DispatchOther ==
    \E m \in Messages :
        /\ m.type \notin {"RECORD", "STATE", "SCHEMA"}
        /\ Reads(m)
        /\ UNCHANGED <<config, pc, state, schemas, key_properties,
                       validators, s3_data_to_write, s3_file, dirs, files,
                       puts, objects, error, returned, stdout>>

\* the request of s3.put_object(Body=..., Bucket=..., Key=...)
PutRequest ==
    [Body |-> PutBody(s3_data_to_write),
     Bucket |-> config.s3_bucket,
     Key |-> PutKey(config, s3_file)]

PutFailureSwallowed(put_ok) == TRUE

\* put_object is not inside a try: persist_messages reaches return state
\* only when the put did not raise
ReachesReturn(put_ok) == put_ok

\* the input is exhausted: boto3.client('s3').put_object(...); return state.
\* The put succeeds or raises, as the object store decides.
Finalize ==
    \E put_ok \in BOOLEAN :
        /\ pc = "Dispatching"
        /\ puts' = Append(puts, PutRequest)
        /\ objects' = IF put_ok
                      THEN DictSet(objects,
                                   <<PutRequest.Bucket, PutRequest.Key>>,
                                   PutRequest.Body)
                      ELSE objects
        /\ IF ReachesReturn(put_ok)
           THEN /\ pc' = "Returned"
                /\ returned' = Some(state)
                /\ UNCHANGED error
           ELSE /\ Raise("ClientError")
                /\ UNCHANGED returned
        /\ UNCHANGED <<config, consumed, state, schemas, key_properties,
                       validators, s3_data_to_write, s3_file, dirs, files,
                       stdout>>

StateLinesAlways(st) ==
    <<(IF st # None THEN Dumps(st[1]) ELSE "null") \o "\n">>

\* what emit_state(st) writes: json.dumps(st) and a newline when st is not
\* None, nothing otherwise
StateLines(st) == IF st # None THEN <<Dumps(st[1]) \o "\n">> ELSE <<>>

\* main: emit_state(state) with the state persist_messages returned
emit_state ==
    /\ pc = "Returned"
    /\ pc' = "Done"
    /\ stdout' = stdout \o StateLines(returned[1])
    /\ UNCHANGED <<config, consumed, state, schemas, key_properties,
                   validators, s3_data_to_write, s3_file, dirs, files, puts,
                   objects, error, returned>>

Next ==
    \/ DecodeError
    \/ DispatchRecord
    \/ DispatchState
    \/ DispatchSchema
    \/ DispatchOther
    \/ Finalize
    \/ emit_state

Spec == Init /\ [][Next]_vars

-----------------------------------------------------------------------------
(* What the input read so far says, independently of the program state.    *)

\* the message the step read, when ReadsMessage holds
ReadsMessage == consumed' # consumed
Read == consumed'[Len(consumed')]

\* a SCHEMA message for stream s is among hist
SchemaSeen(s, hist) ==
    \E j \in 1..Len(hist) : hist[j].type = "SCHEMA" /\ hist[j].stream = s

\* the value of the last STATE message of hist, None if there is none
RECURSIVE LastStateValue(_)
LastStateValue(hist) ==
    IF Len(hist) = 0 THEN None
    ELSE IF hist[Len(hist)].type = "STATE" THEN Some(hist[Len(hist)].value)
    ELSE LastStateValue(SubSeq(hist, 1, Len(hist) - 1))

\* The RECORD messages of the run that were accepted: every message before a
\* failure was fully dispatched, so these are the RECORD messages read, less
\* the last message when the run failed at it.
Accepted ==
    LET n == IF error \in {"", "ClientError"} THEN Len(consumed)
             ELSE Len(consumed) - 1
    IN  SubSeq(consumed, 1, n)

\* the lines of the RECORD messages of hist whose output file is named file
RECURSIVE LinesFor(_, _)
LinesFor(file, hist) ==
    IF Len(hist) = 0 THEN <<>>
    ELSE (IF Head(hist).type = "RECORD"
             /\ Filename(config, Head(hist).stream) = file
          THEN <<Line(Head(hist).record)>> ELSE <<>>)
         \o LinesFor(file, Tail(hist))

\* the lines of all RECORD messages of hist
RECURSIVE AllLines(_)
AllLines(hist) ==
    IF Len(hist) = 0 THEN <<>>
    ELSE (IF Head(hist).type = "RECORD"
          THEN <<Line(Head(hist).record)>> ELSE <<>>)
         \o AllLines(Tail(hist))

Completed == pc \in {"Returned", "Done"}

-----------------------------------------------------------------------------
(* Claims.                                                                 *)

\* C1: a RECORD for a stream with no earlier SCHEMA message fails the run
\* with the unknown-stream error at that message: nothing is buffered or
\* written, no put is issued, nothing is returned, and the failed run takes
\* no further step.
C1_UnknownStreamHalts ==
    [][/\ (/\ ReadsMessage
           /\ Read.type = "RECORD"
           /\ ~SchemaSeen(Read.stream, consumed))
          => /\ pc' = "Failed"
             /\ error' = "UnknownStream"
             /\ puts' = <<>>
             /\ returned' = <<>>
             /\ UNCHANGED <<s3_data_to_write, s3_file, dirs, files, objects,
                            state, stdout>>
       /\ error = "UnknownStream" => UNCHANGED vars]_vars

\* a run that failed at a record of a stream never declared, after a record
\* of another stream was accepted
C1_Witness ==
    /\ error = "UnknownStream"
    /\ Len(consumed) >= 3
    /\ consumed[Len(consumed) - 1].type = "RECORD"

\* C2 (as claimed): with write_to_s3 and an empty bucket or prefix the run
\* aborts before any message is processed: no SCHEMA is registered, no STATE
\* is applied and no put is issued.
C2_NoMessageBeforeConfigError ==
    (config.write_to_s3 /\ (config.s3_bucket = "" \/ config.s3_prefix = ""))
    => /\ schemas = EmptyDict
       /\ state = None
       /\ puts = <<>>

\* C3: under local append, a step that appends a record to a local file
\* leaves the checkpoint absent, and an absent checkpoint becomes present
\* only by a step that reads a STATE message.
C3_LocalAppendClearsCheckpoint ==
    [][~config.write_to_s3
       => /\ files' # files => state' = None
          /\ (state = None /\ state' # None)
             => (ReadsMessage /\ Read.type = "STATE")]_vars

\* a record was appended to a local file right after a STATE message
C3_Witness ==
    /\ ~config.write_to_s3
    /\ error = ""
    /\ Len(consumed) >= 3
    /\ consumed[Len(consumed)].type = "RECORD"
    /\ consumed[Len(consumed) - 1].type = "STATE"
    /\ files # EmptyDict
    /\ state = None

\* C4: under write_to_s3 a RECORD message leaves the checkpoint unchanged,
\* and a run that completes returns the value of the last STATE message of
\* the input, None if there was none.
C4_BufferedPutKeepsCheckpoint ==
    [][config.write_to_s3
       => /\ (ReadsMessage /\ Read.type = "RECORD") => state' = state
          /\ returned' # <<>>
             => returned' = Some(LastStateValue(consumed'))]_vars

\* a completed run that returned the checkpoint of a STATE message followed
\* by an accepted record
C4_Witness ==
    /\ config.write_to_s3
    /\ Completed
    /\ Len(consumed) >= 3
    /\ consumed[Len(consumed)].type = "RECORD"
    /\ consumed[Len(consumed) - 1].type = "STATE"
    /\ returned = Some(Some(consumed[Len(consumed) - 1].value))

\* C5 (as claimed): under write_to_s3 a completed run made exactly one put
\* and its body is the concatenation of the buffered lines, nothing added.
C5_PutBodyIsConcatenation ==
    (config.write_to_s3 /\ Completed)
    => /\ Len(puts) = 1
       /\ puts[1].Body = Concat(s3_data_to_write)

\* C6 (as claimed): under local append no put is ever issued and nothing
\* reaches object storage.
C6_LocalFinalizeNoOp ==
    ~config.write_to_s3 => (puts = <<>> /\ objects = EmptyDict)

\* C7 (as claimed): a run over an empty input that completes returns no
\* checkpoint, writes nothing to standard output and creates no file, no
\* directory and no object.
C7_EmptyInputNoArtifact ==
    (consumed = <<>> /\ Completed)
    => /\ returned = Some(None)
       /\ stdout = <<>>
       /\ files = EmptyDict
       /\ dirs = {}
       /\ objects = EmptyDict

\* the artifact of stream s holds exactly the lines, in input order, of the
\* RECORD messages of hist that are routed to it
ArtifactHolds(s, hist) ==
    LET file == Filename(config, s)
        body == Concat(LinesFor(file, hist))
        key == <<config.s3_bucket, PutKey(config, file)>>
    IN  LinesFor(file, hist) # <<>>
        => IF config.write_to_s3
           THEN key \in DOMAIN objects /\ objects[key] = body
           ELSE /\ LocalPath(config, s) \in DOMAIN files
                /\ files[LocalPath(config, s)] = body

\* C8 (as claimed): on a completed run, under either strategy, the artifact
\* of every stream holds the newline-terminated records accepted for it, in
\* input order.
C8_ArtifactHoldsRecordsInOrder ==
    Completed => \A s \in Streams : ArtifactHolds(s, consumed)

\* C9 (as claimed): when a record fails validation the records accepted
\* before it remain in the destination: in the local files under local
\* append, in an uploaded object under write_to_s3.
C9_AppendedRecordsRemainInDestination ==
    error = "ValidationError"
    => /\ pc = "Failed"
       /\ IF config.write_to_s3
          THEN AllLines(Accepted) # <<>> => objects # EmptyDict
          ELSE \A s \in Streams : ArtifactHolds(s, Accepted)

\* C9 (amended): a record that fails its stream's validator fails the run
\* with the validation error and changes no buffer, file or object; the
\* failed run takes no further step; the records accepted before it remain
\* in the local files under local append, and under write_to_s3 they remain
\* in the buffer only: no put was issued and no object exists.
C9_ValidationErrorKeepsAppended ==
    [][/\ (/\ ReadsMessage
           /\ Read.type = "RECORD"
           /\ Read.stream \in DOMAIN validators
           /\ ~Validates(validators[Read.stream], Read.record))
          => /\ pc' = "Failed"
             /\ error' = "ValidationError"
             /\ UNCHANGED <<s3_data_to_write, s3_file, dirs, files, puts,
                            objects, state, returned, stdout>>
       /\ error = "ValidationError" => UNCHANGED vars
       /\ error' = "ValidationError"
          => IF config.write_to_s3
             THEN /\ s3_data_to_write' = AllLines(Accepted')
                  /\ puts' = <<>>
                  /\ objects' = EmptyDict
             ELSE \A s \in Streams : ArtifactHolds(s, Accepted)']_vars

\* a run that failed validation after two records were appended to the same
\* local file
C9_Witness ==
    /\ error = "ValidationError"
    /\ ~config.write_to_s3
    /\ Len(AllLines(Accepted)) = 2
    /\ \E f \in DOMAIN files : files[f] = Concat(AllLines(Accepted))

\* a run that failed validation under write_to_s3 with a record buffered
C9_WitnessBuffered ==
    /\ error = "ValidationError"
    /\ config.write_to_s3
    /\ s3_data_to_write # <<>>

\* C10: a STATE message with value v sets the checkpoint to v whatever it
\* was, and leaves the schemas, validators, key properties, buffer, tracked
\* filename, files and puts unchanged.
C10_StateReplacesCheckpoint ==
    [][(ReadsMessage /\ Read.type = "STATE")
       => /\ state' = Some(Read.value)
          /\ UNCHANGED <<schemas, validators, key_properties,
                         s3_data_to_write, s3_file, dirs, files, puts,
                         objects, pc, error>>]_vars

\* a second STATE message replaced the different value of the first, with a
\* schema registered
C10_Witness ==
    /\ Len(consumed) >= 3
    /\ consumed[Len(consumed)].type = "STATE"
    /\ consumed[Len(consumed) - 1].type = "STATE"
    /\ consumed[Len(consumed)].value # consumed[Len(consumed) - 1].value
    /\ state = Some(consumed[Len(consumed)].value)
    /\ schemas # EmptyDict

\* C11: standard output holds at most one line; a line is written only by
\* the step after persist_messages returned, that is after the put, and it
\* is the returned checkpoint; a finished run wrote a line exactly when the
\* returned checkpoint is present, and a failed run wrote nothing.
C11_AtMostOneLineAfterFinalize ==
    [][/\ Len(stdout') <= 1
       /\ stdout' # stdout
          => /\ pc = "Returned"
             /\ puts # <<>>
             /\ returned[1] # None
             /\ stdout' = <<Dumps(returned[1][1]) \o "\n">>
       /\ pc' = "Done" => ((stdout' # <<>>) <=> (returned'[1] # None))
       /\ pc' = "Failed" => stdout' = <<>>]_vars

\* a finished run that wrote the returned checkpoint as its one line
C11_Witness ==
    /\ pc = "Done"
    /\ returned # Some(None)
    /\ stdout = <<Dumps(returned[1][1]) \o "\n">>
    /\ puts # <<>>

\* C12 (as claimed): under local append with empty bucket and prefix, the
\* input SCHEMA for S, a conforming RECORD for S, STATE v ends in a completed
\* run that emits v.
C12_LocalRunEmitsLastState ==
    (/\ ~config.write_to_s3
     /\ config.s3_bucket = "" /\ config.s3_prefix = ""
     /\ Len(consumed) = 3
     /\ consumed[1].type = "SCHEMA"
     /\ consumed[2].type = "RECORD"
     /\ consumed[2].stream = consumed[1].stream
     /\ consumed[3].type = "STATE"
     /\ pc # "Dispatching")
    => /\ Completed
       /\ returned = Some(Some(consumed[3].value))
       /\ pc = "Done" => stdout = <<Dumps(consumed[3].value) \o "\n">>

\* C13: a decoded message whose type is not SCHEMA, RECORD or STATE leaves
\* the run in the loop without an error and changes neither the checkpoint,
\* the schemas, the validators, the buffer nor the destination.
C13_OtherTypeIgnored ==
    [][(/\ ReadsMessage
        /\ Read \in Messages
        /\ Read.type \notin {"SCHEMA", "RECORD", "STATE"})
       => /\ pc' = "Dispatching"
          /\ error' = ""
          /\ UNCHANGED <<state, schemas, key_properties, validators,
                         s3_data_to_write, s3_file, dirs, files, puts,
                         objects, returned, stdout>>]_vars

\* a message of another type was read with a schema registered and a
\* checkpoint present, and a STATE message was processed after it
C13_Witness ==
    /\ Len(consumed) = 4
    /\ consumed[1].type = "SCHEMA"
    /\ consumed[2].type = "STATE"
    /\ consumed[3] = ActivateVersionMsg
    /\ consumed[4].type = "STATE"
    /\ state = Some(consumed[4].value)
    /\ state # Some(consumed[2].value)

\* the schema document of the last SCHEMA message for stream s in hist
RECURSIVE LastSchemaDoc(_, _)
LastSchemaDoc(s, hist) ==
    IF hist[Len(hist)].type = "SCHEMA" /\ hist[Len(hist)].stream = s
    THEN hist[Len(hist)].schema
    ELSE LastSchemaDoc(s, SubSeq(hist, 1, Len(hist) - 1))

\* the validator built from the normalized newest schema for s in hist
NewestValidator(s, hist) ==
    Draft4Validator(adjust_decimal_precision_for_schema(LastSchemaDoc(s, hist)))

\* C14: after every step the streams with a schema are the streams with a
\* validator and the streams a SCHEMA message was read for; the schema stored
\* for a stream is the normalized schema of the newest SCHEMA message for it
\* and the validator is built from that schema; a RECORD for a declared
\* stream raises the validation error exactly when the record does not
\* conform to the newest schema that preceded it.
C14_ValidatorFromNewestSchema ==
    [][/\ DOMAIN schemas' = DOMAIN validators'
       /\ DOMAIN schemas' = {s \in Streams : SchemaSeen(s, consumed')}
       /\ \A s \in DOMAIN schemas' :
            /\ schemas'[s] =
                  adjust_decimal_precision_for_schema(LastSchemaDoc(s, consumed'))
            /\ validators'[s] = Draft4Validator(schemas'[s])
       /\ (/\ ReadsMessage
           /\ Read.type = "RECORD"
           /\ SchemaSeen(Read.stream, consumed))
          => ((error' = "ValidationError")
              <=> ~Validates(NewestValidator(Read.stream, consumed),
                             Read.record))]_vars

\* a record that conforms to the first schema of its stream was rejected
\* after a second, different schema was registered for the stream
C14_Witness ==
    /\ Len(consumed) = 3
    /\ consumed[1].type = "SCHEMA"
    /\ consumed[2].type = "SCHEMA"
    /\ consumed[2].stream = consumed[1].stream
    /\ consumed[2].schema # consumed[1].schema
    /\ consumed[3].type = "RECORD"
    /\ consumed[3].stream = consumed[1].stream
    /\ Validates(Draft4Validator(consumed[1].schema), consumed[3].record)
    /\ error = "ValidationError"

\* the filename of the last RECORD message of hist, "" if there is none
RECURSIVE LastRecordFile(_)
LastRecordFile(hist) ==
    IF Len(hist) = 0 THEN ""
    ELSE IF hist[Len(hist)].type = "RECORD"
    THEN Filename(config, hist[Len(hist)].stream)
    ELSE LastRecordFile(SubSeq(hist, 1, Len(hist) - 1))

\* C15: under write_to_s3 the tracked filename is the filename of the last
\* accepted record ("" before the first), at most one put is issued, and its
\* key is s3_prefix followed by that filename.
C15_TrackedFileIsLastRecords ==
    config.write_to_s3
    => /\ s3_file = LastRecordFile(Accepted)
       /\ Len(puts) <= 1
       /\ puts # <<>>
          => puts[1].Key = config.s3_prefix \o LastRecordFile(Accepted)

\* a completed run that accepted records of two streams with different
\* filenames and put under the filename of the second
C15_Witness ==
    /\ config.write_to_s3
    /\ Completed
    /\ Len(consumed) = 4
    /\ consumed[3].type = "RECORD"
    /\ consumed[4].type = "RECORD"
    /\ Filename(config, consumed[3].stream)
         # Filename(config, consumed[4].stream)
    /\ puts[1].Key = config.s3_prefix \o Filename(config, consumed[4].stream)

\* a occurs in b as a contiguous run of characters
IsSubstring(a, b) ==
    \E i \in 1..(Len(b) - Len(a) + 1) : SubSeq(b, i, i + Len(a) - 1) = a

\* the line of record r as str() of the list writes it, without the quotes
ReprLine(r) == ReprEscape(Line(r), ReprQuote(Line(r)))

\* the text of record r occurs in body, as written or as repr writes it
BodyHasRecord(body, r) ==
    IsSubstring(Dumps(r), body) \/ IsSubstring(ReprLine(r), body)

\* the RECORD messages of hist
RECURSIVE RecordsOf(_)
RecordsOf(hist) ==
    IF Len(hist) = 0 THEN {}
    ELSE (IF Head(hist).type = "RECORD" THEN {Head(hist)} ELSE {})
         \cup RecordsOf(Tail(hist))

\* the accepted records belong to streams with different filenames
SeveralFiles ==
    \E m1, m2 \in RecordsOf(Accepted) :
        Filename(config, m1.stream) # Filename(config, m2.stream)

\* C16 (as claimed): on a completed run under write_to_s3 whose accepted
\* records belong to more than one stream, the records of the streams other
\* than the last tracked one are absent from the uploaded body.
C16_OtherStreamsAbsentFromBody ==
    (config.write_to_s3 /\ Completed /\ SeveralFiles)
    => \A m \in RecordsOf(Accepted) :
          Filename(config, m.stream) # s3_file
          => ~BodyHasRecord(puts[1].Body, m.record)

\* C16 (amended): on a completed run under write_to_s3 the one uploaded body
\* holds the line of every accepted record of every stream, and the only
\* object written is the one named after the last accepted record, so the
\* streams other than the last have no object of their own.
C16_AllStreamsInOneBody ==
    (config.write_to_s3 /\ Completed)
    => /\ Len(puts) = 1
       /\ \A m \in RecordsOf(Accepted) :
             IsSubstring(ReprLine(m.record), puts[1].Body)
       /\ DOMAIN objects =
             {<<config.s3_bucket,
                config.s3_prefix \o LastRecordFile(Accepted)>>}

\* a completed run that accepted records of two streams with different
\* filenames
C16_Witness ==
    /\ config.write_to_s3
    /\ Completed
    /\ SeveralFiles
    /\ Len(s3_data_to_write) = 2

\* C17: under write_to_s3 a step that reads a message issues no put and
\* writes no object; a put is issued only by the step that ends the loop,
\* when none was issued before, and no message is read after it; a run that
\* failed at a message issued no put and wrote no object.
C17_PutOnlyAfterInput ==
    [][config.write_to_s3
       => /\ ReadsMessage => UNCHANGED <<puts, objects>>
          /\ puts' # puts
             => /\ pc = "Dispatching"
                /\ puts = <<>>
                /\ Len(puts') = 1
                /\ pc' # "Dispatching"
          /\ puts # <<>> => ~ReadsMessage
          /\ objects' # objects => puts' # puts
          /\ error' \in {"JSONDecodeError", "UnknownStream",
                         "ValidationError", "ConfigurationError"}
             => (puts' = <<>> /\ objects' = EmptyDict)]_vars

\* a run that failed validation with a record buffered and nothing put
C17_Witness ==
    /\ config.write_to_s3
    /\ error = "ValidationError"
    /\ s3_data_to_write # <<>>
    /\ puts = <<>>
    /\ objects = EmptyDict

\* the put was issued and raised: no object was written
PutFailed == puts # <<>> /\ objects = EmptyDict

\* C18: under write_to_s3 a put that raises ends the run in Failed: nothing
\* is returned, nothing is written to standard output, the put stays the
\* only one and the failed run takes no further step.
C18_PutFailureIsFatal ==
    [][config.write_to_s3
       => /\ PutFailed'
             => /\ pc' = "Failed"
                /\ returned' = <<>>
                /\ stdout' = <<>>
                /\ Len(puts') = 1
          /\ PutFailed => UNCHANGED vars]_vars

\* the put raised after a STATE message had set the checkpoint
C18_Witness ==
    /\ config.write_to_s3
    /\ PutFailed
    /\ error = "ClientError"
    /\ state # None
    /\ s3_data_to_write # <<>>

\* the lines of the RECORD messages of hist written to the local file path
RECURSIVE LinesAt(_, _)
LinesAt(path, hist) ==
    IF Len(hist) = 0 THEN <<>>
    ELSE (IF Head(hist).type = "RECORD"
             /\ LocalPath(config, Head(hist).stream) = path
          THEN <<Line(Head(hist).record)>> ELSE <<>>)
         \o LinesAt(path, Tail(hist))

\* message j of hist is a RECORD for a stream declared before it that
\* conforms to the newest schema declared before it
WasValid(hist, j) ==
    /\ SchemaSeen(hist[j].stream, SubSeq(hist, 1, j - 1))
    /\ Validates(NewestValidator(hist[j].stream, SubSeq(hist, 1, j - 1)),
                 hist[j].record)

\* C19: in every reachable state the buffer holds the lines of the accepted
\* records and every local file holds the lines of the accepted records
\* routed to it, nothing else; and every accepted record was, when read, a
\* record of a declared stream that conformed to the newest schema of the
\* stream, so a rejected record is neither in the buffer nor in a file.
C19_OnlyValidRecordsStored ==
    /\ s3_data_to_write =
          (IF config.write_to_s3 THEN AllLines(Accepted) ELSE <<>>)
    /\ \A f \in DOMAIN files : files[f] = Concat(LinesAt(f, Accepted))
    /\ config.write_to_s3 => files = EmptyDict
    /\ \A j \in 1..Len(Accepted) :
          Accepted[j].type = "RECORD" => WasValid(Accepted, j)

\* a run that rejected an invalid record after accepting one into a local
\* file: the file holds the accepted record only
C19_Witness ==
    /\ ~config.write_to_s3
    /\ error = "ValidationError"
    /\ Len(consumed) >= 3
    /\ consumed[Len(consumed) - 1].type = "RECORD"
    /\ \E f \in DOMAIN files :
          files[f] = Line(consumed[Len(consumed) - 1].record)

BadS3Config ==
    config.write_to_s3 /\ (config.s3_bucket = "" \/ config.s3_prefix = "")

\* C20: with write_to_s3 and an empty bucket or prefix, a RECORD that passes
\* the stream-known check and validation raises the configuration error and
\* is not buffered; a RECORD of an undeclared stream raises the
\* unknown-stream error and an invalid one the validation error; SCHEMA and
\* STATE messages are processed as usual and the run stays in the loop.
C20_ConfigErrorAtFirstValidRecord ==
    [][BadS3Config
       => /\ s3_data_to_write' = <<>>
          /\ s3_file' = ""
          /\ (ReadsMessage /\ Read.type = "RECORD")
             => /\ pc' = "Failed"
                /\ UNCHANGED state
                /\ error' =
                     (IF ~SchemaSeen(Read.stream, consumed)
                      THEN "UnknownStream"
                      ELSE IF ~Validates(
                                 NewestValidator(Read.stream, consumed),
                                 Read.record)
                      THEN "ValidationError"
                      ELSE "ConfigurationError")
          /\ (ReadsMessage /\ Read.type = "SCHEMA")
             => /\ pc' = "Dispatching"
                /\ error' = ""
                /\ Read.stream \in DOMAIN schemas'
                /\ validators'[Read.stream] =
                     NewestValidator(Read.stream, consumed')
          /\ (ReadsMessage /\ Read.type = "STATE")
             => /\ pc' = "Dispatching"
                /\ error' = ""
                /\ state' = Some(Read.value)]_vars

\* the configuration error was raised at a valid record, after a SCHEMA and
\* a STATE message had been processed
C20_Witness ==
    /\ BadS3Config
    /\ error = "ConfigurationError"
    /\ Len(consumed) = 3
    /\ consumed[3].type = "RECORD"
    /\ schemas # EmptyDict
    /\ state # None
    /\ s3_data_to_write = <<>>

====
